---- MODULE Spec2Model ----
(***************************************************************************)
(* State-machine model of the Theophysics Architect plugin (main.ts).      *)
(*                                                                         *)
(* JavaScript strings are modelled as sequences of one-character strings,  *)
(* so that toLowerCase and the identifier sanitising regex are computed    *)
(* character by character.  `undefined` object fields are modelled as      *)
(* fields missing from the DOMAIN of a record.                             *)
(***************************************************************************)
EXTENDS Integers, Sequences, FiniteSets, TLC

VARIABLES
    settings,      \* this.settings (in-memory ArchitectSettings), main.ts:23
    loaded,        \* TRUE once onload's loadSettings has run
    stored,        \* the host's persisted data.json record (loadData/saveData)
    pendingSaves,  \* saveData calls issued and not yet completed by the host
    saveCompleted, \* TRUE once some saveData call has completed
    activeFile,    \* view.file handed to the local-map editorCallback
    localDone,     \* TRUE once editor.replaceSelection(report) has run
    localReport,   \* what the local-map command inserted: phase and diagram
    vaultFiles,    \* vault.getMarkdownFiles() with each file's metadata cache entry
    folderEntry,   \* what the vault holds at normalizePath(analysisFolder)
    fileEntry,     \* what the vault holds at <folder>/ARCHITECT_ANALYTICS_DASHBOARD.md
    fileContent,   \* content of the dashboard file when fileEntry = "file"
    inv,           \* per invocation of generateGlobalDashboard: its position and locals
    reports,       \* the reports composed so far, in order of composition
    anyRejected    \* TRUE once some host I/O promise has rejected

vars == <<settings, loaded, stored, pendingSaves, saveCompleted, activeFile, localDone,
          localReport, vaultFiles, folderEntry, fileEntry, fileContent, inv, reports,
          anyRejected>>

localVars == <<activeFile, localDone, localReport>>
settingsVars == <<settings, loaded, stored, pendingSaves, saveCompleted>>
dashVars == <<vaultFiles, folderEntry, fileEntry, fileContent, inv, reports,
             anyRejected>>

-----------------------------------------------------------------------------
(* Bounds of the model *)

MaxLinks == 2          \* outgoing links per document in the local-map inputs
MaxFiles == 2          \* markdown files per vault in the aggregation inputs
MaxInvocations == 2    \* invocations of the dashboard command that may overlap
MaxGenerations == 3    \* dashboard generations per behaviour
MaxPendingSaves == 2   \* saveData calls in flight
MaxSignals == 12       \* signal documents in the insight inputs
MaxPatterns == 7       \* pattern documents in the insight inputs
MaxConstants == 1      \* constant documents in the insight inputs

-----------------------------------------------------------------------------
(* Strings *)

LowerAlpha == <<"a","b","c","d","e","f","g","h","i","j","k","l","m",
                "n","o","p","q","r","s","t","u","v","w","x","y","z">>
UpperAlpha == <<"A","B","C","D","E","F","G","H","I","J","K","L","M",
                "N","O","P","Q","R","S","T","U","V","W","X","Y","Z">>
Digits == <<"0","1","2","3","4","5","6","7","8","9">>

IsUpper(c) == \E i \in 1..26 : UpperAlpha[i] = c
IsLower(c) == \E i \in 1..26 : LowerAlpha[i] = c
IsDigit(c) == \E i \in 1..10 : Digits[i] = c

ToLowerChar(c) ==
    IF IsUpper(c) THEN LowerAlpha[CHOOSE i \in 1..26 : UpperAlpha[i] = c] ELSE c

ToUpperChar(c) ==
    IF IsLower(c) THEN UpperAlpha[CHOOSE i \in 1..26 : LowerAlpha[i] = c] ELSE c

\* String.prototype.toLowerCase
toLowerCase(s) == [i \in 1..Len(s) |-> ToLowerChar(s[i])]

\* s.replace(/[^a-zA-Z0-9]/g, '')
Sanitize(s) == SelectSeq(s, LAMBDA c : IsUpper(c) \/ IsLower(c) \/ IsDigit(c))

RECURSIVE Decimal(_)
\* Number -> string as a template literal formats a non-negative integer
Decimal(n) ==
    IF n < 10 THEN <<Digits[n + 1]>>
    ELSE Decimal(n \div 10) \o <<Digits[(n % 10) + 1]>>

W_atom == <<"a","t","o","m">>
W_signal == <<"s","i","g","n","a","l">>
W_molecule == <<"m","o","l","e","c","u","l","e">>
W_pattern == <<"p","a","t","t","e","r","n">>
W_law == <<"l","a","w">>
W_constant == <<"c","o","n","s","t","a","n","t">>
EmptyString == <<>>

-----------------------------------------------------------------------------
(* Settings *)

DEFAULT_SETTINGS ==
    [analysisFolder |-> <<"D","a","t","a"," ","A","n","a","l","y","t","i","c","s">>,
     schema |-> [level1 |-> <<"S","i","g","n","a","l">>,
                 level2 |-> <<"P","a","t","t","e","r","n">>,
                 level3 |-> <<"C","o","n","s","t","a","n","t">>]]


\* this.settings before onload has assigned it
NoSettings == [k \in {} |-> {}]

SchemaFields == {"level1", "level2", "level3"}

\* Labels a user may type into a settings text field (the empty string included)
S_Reports == <<"R","e","p","o","r","t","s">>
S_Idea == <<"I","d","e","a">>
S_Theme == <<"T","h","e","m","e">>
S_Truth == <<"T","r","u","t","h">>
FolderValues == {S_Reports, EmptyString}
LabelValues == {S_Idea, EmptyString}

\* A stored schema object holding any subset of level1..level3
StoredSchemas ==
    {[k \in D |-> CASE k = "level1" -> S_Idea
                    [] k = "level2" -> S_Theme
                    [] k = "level3" -> S_Truth] : D \in SUBSET SchemaFields}

\* What loadData() can return: null / {} (the empty record), or a record holding
\* any subset of the fields analysisFolder and schema (schema itself partial)
StoredRecords ==
    {[k \in D |-> IF k = "analysisFolder" THEN S_Reports ELSE sch] :
        D \in SUBSET {"analysisFolder", "schema"}, sch \in StoredSchemas}

\* Object.assign({}, defaults, data): own top-level properties of data replace
\* those of defaults; a nested object is taken over whole
ObjectAssign(defaults, data) ==
    [k \in DOMAIN defaults \cup DOMAIN data |->
        IF k \in DOMAIN data THEN data[k] ELSE defaults[k]]

\* loadSettings, called once from onload
loadSettings ==
    /\ ~loaded
    /\ settings' = ObjectAssign(DEFAULT_SETTINGS, stored)
    /\ loaded' = TRUE
    /\ UNCHANGED <<stored, pendingSaves, saveCompleted>>
    /\ UNCHANGED <<localVars, dashVars>>

\* saveSettings: saveData(this.settings) serialises the record at the call
saveSettings(s) ==
    /\ Len(pendingSaves) < MaxPendingSaves
    /\ pendingSaves' = Append(pendingSaves, s)

\* The host completes the oldest saveData call
HostSaveData ==
    /\ pendingSaves # <<>>
    /\ stored' = Head(pendingSaves)
    /\ pendingSaves' = Tail(pendingSaves)
    /\ saveCompleted' = TRUE
    /\ UNCHANGED <<settings, loaded>>
    /\ UNCHANGED <<localVars, dashVars>>

\* onChange of the 'Analytics Folder' text field
OnChangeAnalysisFolder(value) ==
    /\ loaded
    /\ settings' = [settings EXCEPT !.analysisFolder = value]
    /\ saveSettings(settings')
    /\ UNCHANGED <<loaded, stored, saveCompleted>>
    /\ UNCHANGED <<localVars, dashVars>>

\* onChange of a 'Level n Name' text field: settings.schema.leveln = value
OnChangeLevel(field, value) ==
    /\ loaded
    /\ settings' = [settings EXCEPT !.schema =
                       [f \in DOMAIN settings.schema \cup {field} |->
                           IF f = field THEN value ELSE settings.schema[f]]]
    /\ saveSettings(settings')
    /\ UNCHANGED <<loaded, stored, saveCompleted>>
    /\ UNCHANGED <<localVars, dashVars>>


-----------------------------------------------------------------------------
(* Local map: scanConnections and generateMermaid *)

\* Settings with every field populated, as the local-map inputs use them
CustomSettings ==
    [analysisFolder |-> S_Reports,
     schema |-> [level1 |-> S_Idea, level2 |-> S_Theme, level3 |-> S_Truth]]

\* Every upper/lower-case spelling of the word w
CaseVariants(w) ==
    {[i \in 1..Len(w) |-> IF i \in U THEN ToUpperChar(w[i]) ELSE w[i]] :
        U \in SUBSET (1..Len(w))}

\* The lower-case, Capitalised and UPPER-CASE spellings of the word w
CommonSpellings(w) ==
    {w, [i \in 1..Len(w) |-> IF i = 1 THEN ToUpperChar(w[i]) ELSE w[i]],
     [i \in 1..Len(w) |-> ToUpperChar(w[i])]}

\* Values of frontmatter.type that are strings
TypeStrings ==
    CaseVariants(W_law) \cup CaseVariants(W_atom)
    \cup CommonSpellings(W_signal) \cup CommonSpellings(W_molecule)
    \cup CommonSpellings(W_pattern) \cup CommonSpellings(W_constant)
    \cup {EmptyString, <<"H","y","p","o">>, <<"l","a","w","s">>,
          <<"L","a","w"," ">>, <<"a","t","o","m","1">>, <<"C","2">>}

\* link.link values, several of which sanitise to the same or to the empty string
LinkNames == {<<"A"," ","B">>, <<"A","-","B">>, <<"!","?">>, <<"C","e","n","t","e","r">>}

\* cache.links entries; displayText <<>> stands for an absent or empty displayText
Links ==
    {[link |-> n, displayText |-> d] : n \in LinkNames, d \in {EmptyString, <<"s","e","e">>}}

RECURSIVE SeqsUpTo(_, _)
SeqsUpTo(S, n) ==
    IF n = 0 THEN {<<>>}
    ELSE LET shorter == SeqsUpTo(S, n - 1)
         IN  shorter \cup {Append(q, x) : q \in {r \in shorter : Len(r) = n - 1}, x \in S}

Basenames == {<<"N","o","t","e"," ","1">>, <<"C","e","n","t","e","r">>, <<"#">>}

\* The documents the local-map command may be run on: the file's name and the
\* metadata cache entry the host holds for it
LocalFiles ==
    {[basename |-> b, hasFrontmatter |-> FALSE, hasType |-> FALSE,
      type |-> EmptyString, links |-> l] :
        b \in Basenames, l \in SeqsUpTo(Links, MaxLinks)}
    \cup {[basename |-> b, hasFrontmatter |-> TRUE, hasType |-> FALSE,
           type |-> EmptyString, links |-> l] :
        b \in Basenames, l \in SeqsUpTo(Links, MaxLinks)}
    \cup {[basename |-> b, hasFrontmatter |-> TRUE, hasType |-> TRUE,
           type |-> t, links |-> l] :
        b \in Basenames, t \in TypeStrings, l \in SeqsUpTo(Links, MaxLinks)}

\* JavaScript truthiness of frontmatter.type: undefined and '' are falsy
TypeTruthy(file) == file.hasFrontmatter /\ file.hasType /\ file.type # EmptyString

\* scanConnections without the toLowerCase call
scanConnectionsCaseSensitive(file) ==
    LET t == file.type
        myType ==
            IF TypeTruthy(file)
            THEN IF t = W_law \/ t = W_constant THEN settings.schema.level3
                 ELSE IF t = W_molecule \/ t = W_pattern THEN settings.schema.level2
                 ELSE IF t = W_atom \/ t = W_signal THEN settings.schema.level1
                 ELSE file.type
            ELSE settings.schema.level1
    IN  [myType |-> myType,
         nodes |-> [i \in 1..Len(file.links) |->
                      [name |-> file.links[i].link,
                       displayText |-> IF file.links[i].displayText # EmptyString
                                       THEN file.links[i].displayText
                                       ELSE file.links[i].link]]]

scanConnections(file) ==
    LET t == toLowerCase(file.type)
        myType ==
            IF TypeTruthy(file)
            THEN IF t = W_law \/ t = W_constant THEN settings.schema.level3
                 ELSE IF t = W_molecule \/ t = W_pattern THEN settings.schema.level2
                 ELSE IF t = W_atom \/ t = W_signal THEN settings.schema.level1
                 ELSE file.type
            ELSE settings.schema.level1
    IN  [myType |-> myType,
         nodes |-> [i \in 1..Len(file.links) |->
                      [name |-> file.links[i].link,
                       displayText |-> IF file.links[i].displayText # EmptyString
                                       THEN file.links[i].displayText
                                       ELSE file.links[i].link]]]

Id_Center == <<"C","e","n","t","e","r">>

\* A node identifier made of the sanitised link name
NodeIdentifierFromName(node, index) == Sanitize(node.name)

\* The identifier of the node of the link at position index: `Node${index}`
NodeIdentifier(node, index) == <<"N","o","d","e">> \o Decimal(index)

\* generateMermaid: the diagram text, kept as its declarations in order: the
\* three classDef lines, the Center node line and one edge line per node
generateMermaid(data, centralName) ==
    LET centerClass == toLowerCase(data.myType)
        safeCenter == Sanitize(centralName)
    IN  [classDefs |-> <<"signal", "pattern", "constant">>,
         center |-> [id |-> Id_Center, label |-> centralName, class |-> centerClass],
         edges |-> [i \in 1..Len(data.nodes) |->
                      [from |-> Id_Center,
                       to |-> NodeIdentifier(data.nodes[i], i - 1),
                       label |-> data.nodes[i].displayText]]]

-----------------------------------------------------------------------------
(* Global dashboard: generateGlobalDashboard and saveToAnalysisFolder *)

Tag_breakthrough == "#breakthrough"
Tag_idea == "#idea"

\* A markdown file with its metadata cache entry.  breakthrough is the value
\* of frontmatter.breakthrough: "undefined", "true" (the boolean) or "'true'"
\* (the string).  hasTags FALSE stands for cache.tags being undefined.
VaultDoc(b, fm, ht, t, bt, hasTags, tags) ==
    [basename |-> b, hasFrontmatter |-> fm, hasType |-> ht, type |-> t,
     breakthrough |-> bt, hasTags |-> hasTags, tags |-> tags]

B_Note == <<"N","o","t","e">>

GlobalTypes ==
    {<<"S","i","g","n","a","l">>, <<"P","A","T","T","E","R","N">>, W_law,
     <<"I","d","e","a">>, EmptyString}

TagLists == {<<>>, <<Tag_idea, Tag_breakthrough>>}

\* The documents of the aggregation inputs
GlobalDocs ==
    {VaultDoc(B_Note, FALSE, FALSE, EmptyString, "undefined", tg # <<>>, tg) :
        tg \in TagLists}
    \cup {VaultDoc(B_Note, TRUE, FALSE, EmptyString, bt, tg # <<>>, tg) :
        bt \in {"undefined", "true", "'true'"}, tg \in TagLists}
    \cup {VaultDoc(B_Note, TRUE, TRUE, t, bt, tg # <<>>, tg) :
        t \in GlobalTypes, bt \in {"undefined", "true", "'true'"}, tg \in TagLists}

SignalDoc == VaultDoc(B_Note, TRUE, TRUE, W_signal, "undefined", FALSE, <<>>)
PatternDoc == VaultDoc(B_Note, TRUE, TRUE, W_molecule, "undefined", FALSE, <<>>)
ConstantDoc == VaultDoc(B_Note, TRUE, TRUE, W_constant, "true", FALSE, <<>>)

Repeat(x, n) == [i \in 1..n |-> x]

\* Vaults of s signal, p pattern and c constant documents
CountedVaults ==
    {Repeat(SignalDoc, s) \o Repeat(PatternDoc, p) \o Repeat(ConstantDoc, c) :
        s \in 0..MaxSignals, p \in 0..MaxPatterns, c \in 0..MaxConstants}

\* Array.prototype.includes on cache.tags
Includes(tags, x) == \E k \in 1..Len(tags) : tags[k] = x

NoCounts ==
    [signals |-> 0, patterns |-> 0, constants |-> 0, breakthroughs |-> 0,
     constantList |-> <<>>, patternList |-> <<>>]

\* The loop body without the toLowerCase call
CrunchFileCaseSensitive(counts, file) ==
    IF ~file.hasFrontmatter THEN counts
    ELSE
      LET type == IF TypeTruthy(file) THEN file.type ELSE EmptyString
          c1 == IF type = W_atom \/ type = W_signal
                THEN [counts EXCEPT !.signals = @ + 1] ELSE counts
          c2 == IF type = W_molecule \/ type = W_pattern
                THEN [c1 EXCEPT !.patterns = @ + 1,
                                !.patternList = Append(@, file.basename)]
                ELSE c1
          c3 == IF type = W_law \/ type = W_constant
                THEN [c2 EXCEPT !.constants = @ + 1,
                                !.constantList = Append(@, file.basename)]
                ELSE c2
      IN  IF (file.hasTags /\ Includes(file.tags, Tag_breakthrough))
             \/ file.breakthrough = "true"
          THEN [c3 EXCEPT !.breakthroughs = @ + 1] ELSE c3

\* One iteration of the `for (const file of files)` loop
CrunchFile(counts, file) ==
    IF ~file.hasFrontmatter THEN counts
    ELSE
      LET type == toLowerCase(IF TypeTruthy(file) THEN file.type ELSE EmptyString)
          c1 == IF type = W_atom \/ type = W_signal
                THEN [counts EXCEPT !.signals = @ + 1] ELSE counts
          c2 == IF type = W_molecule \/ type = W_pattern
                THEN [c1 EXCEPT !.patterns = @ + 1,
                                !.patternList = Append(@, file.basename)]
                ELSE c1
          c3 == IF type = W_law \/ type = W_constant
                THEN [c2 EXCEPT !.constants = @ + 1,
                                !.constantList = Append(@, file.basename)]
                ELSE c2
      IN  IF (file.hasTags /\ Includes(file.tags, Tag_breakthrough))
             \/ file.breakthrough = "true"
          THEN [c3 EXCEPT !.breakthroughs = @ + 1] ELSE c3

RECURSIVE Crunch(_, _, _)
\* The loop over files, from position k on
Crunch(files, k, counts) ==
    IF k > Len(files) THEN counts
    ELSE Crunch(files, k + 1, CrunchFile(counts, files[k]))

\* `ratio > 10` read as `ratio >= 10`
RatioAboveTenInclusive(signals, patterns) ==
    signals >= 10 * (IF patterns # 0 THEN patterns ELSE 1)

\* counts.signals / (counts.patterns || 1) > 10.  For counts below 2^49 the
\* IEEE-754 quotient exceeds 10 exactly when signals > 10 * divisor.
RatioAboveTen(signals, patterns) ==
    signals > 10 * (IF patterns # 0 THEN patterns ELSE 1)

\* The insight blocks appended to the report by the if / else if / else chain
Insights(counts) ==
    IF RatioAboveTen(counts.signals, counts.patterns)
    THEN <<"High Signal Noise">>
    ELSE IF counts.constants = 0 /\ counts.patterns > 5
    THEN <<"Ready for Breakthrough">>
    ELSE <<"Healthy Architecture">>

\* The dashboard text: the `updated:` line (the time of composition, kept as
\* the composition's ordinal), the stat numbers, the breakthrough total, the
\* two lists and the insight section
ComposeReport(files, now) ==
    LET counts == Crunch(files, 1, NoCounts)
    IN  [updated |-> now,
         signals |-> counts.signals,
         patterns |-> counts.patterns,
         constants |-> counts.constants,
         breakthroughs |-> counts.breakthroughs,
         constantList |-> counts.constantList,
         patternList |-> counts.patternList,
         insights |-> Insights(counts)]

\* Content of a dashboard file written before the behaviour starts
OldReport == ComposeReport(<<>>, 0)

Invocations == 1..MaxInvocations

\* `x instanceof TFile` read as the truthiness of x
IsTruthyEntry(entry) == entry # "none"

\* `x instanceof TFile` for what getAbstractFileByPath returned
IsTFile(entry) == entry = "file"

FileSnapshot == [entry |-> fileEntry, content |-> fileContent]

IdleInvocation ==
    [pc |-> "idle", error |-> "none", gen |-> 0,
     content |-> OldReport, steps |-> <<>>,
     before |-> [entry |-> "none", content |-> OldReport],
     atEnd |-> [entry |-> "none", content |-> OldReport]]

Step(op, saw) == [op |-> op, saw |-> saw]

\* saveToAnalysisFolder from the file check to the awaited modify / create
\* call.  Nothing in these specifications alters the dashboard path while a
\* createFolder call completes, so the unprimed fileEntry is the current one.
FileCheckAndWrite(i, invocation) ==
    LET checked == [invocation EXCEPT
                       !.steps = Append(@, Step("fileCheck", fileEntry))]
    IN  IF IsTFile(fileEntry)
        THEN inv' = [inv EXCEPT ![i] =
                [checked EXCEPT !.pc = "awaitModify",
                                !.steps = Append(@, Step("modify", fileEntry))]]
        ELSE inv' = [inv EXCEPT ![i] =
                [checked EXCEPT !.pc = "awaitCreate",
                                !.steps = Append(@, Step("create", fileEntry))]]

\* The command callback: generateGlobalDashboard scans and composes, then
\* saveToAnalysisFolder runs up to its first awaited host call
Trigger(i, limit) ==
    /\ inv[i].pc \in {"idle", "done", "failed"}
    /\ Len(reports) < limit
    /\ LET md == ComposeReport(vaultFiles, Len(reports) + 1)
           started == [IdleInvocation EXCEPT
                          !.gen = Len(reports) + 1,
                          !.content = md,
                          !.before = FileSnapshot,
                          !.steps = <<Step("folderCheck", folderEntry)>>]
       IN  /\ reports' = Append(reports, md)
           /\ IF folderEntry = "none"
              THEN inv' = [inv EXCEPT ![i] =
                      [started EXCEPT !.pc = "awaitCreateFolder",
                                      !.steps = Append(@, Step("createFolder", folderEntry))]]
              ELSE FileCheckAndWrite(i, started)
    /\ UNCHANGED <<vaultFiles, folderEntry, fileEntry, fileContent, anyRejected>>
    /\ UNCHANGED <<settingsVars, localVars>>

\* A rejected host call: the exception leaves saveToAnalysisFolder,
\* generateGlobalDashboard and the command callback; nothing catches it
Rejected(i, reason) ==
    /\ inv' = [inv EXCEPT ![i].pc = "failed", ![i].error = reason,
                          ![i].atEnd = FileSnapshot]
    /\ anyRejected' = TRUE

\* After the write: getLeaf, the lookup of the dashboard file and openFile
OpenDashboard(i, entry, content) ==
    /\ inv' = [inv EXCEPT ![i].pc = "done",
                          ![i].atEnd = [entry |-> entry, content |-> content],
                          ![i].steps = Append(@, Step("open", entry))]
    /\ UNCHANGED anyRejected

\* The awaited vault.createFolder completes and the invocation goes on to the
\* file check and the write call.  The host rejects the call when something is
\* at the path already, and may fail for reasons of its own (ok = FALSE).
CompleteCreateFolder(i) ==
    /\ inv[i].pc = "awaitCreateFolder"
    /\ \E ok \in BOOLEAN :
        IF folderEntry # "none"
        THEN Rejected(i, "exists") /\ UNCHANGED folderEntry
        ELSE IF ok
        THEN /\ folderEntry' = "folder"
             /\ FileCheckAndWrite(i, inv[i])
             /\ UNCHANGED anyRejected
        ELSE Rejected(i, "io") /\ UNCHANGED folderEntry
    /\ UNCHANGED <<vaultFiles, fileEntry, fileContent, reports>>
    /\ UNCHANGED <<settingsVars, localVars>>

\* The awaited vault.modify(file, content) completes and the dashboard is opened
CompleteModify(i) ==
    /\ inv[i].pc = "awaitModify"
    /\ \E ok \in BOOLEAN :
        IF ok
        THEN /\ fileContent' = inv[i].content
             /\ OpenDashboard(i, fileEntry, inv[i].content)
        ELSE Rejected(i, "io") /\ UNCHANGED fileContent
    /\ UNCHANGED <<vaultFiles, folderEntry, fileEntry, reports>>
    /\ UNCHANGED <<settingsVars, localVars>>

\* The awaited vault.create(path, content) completes and the dashboard is
\* opened.  The host rejects the call when something is at the path already
\* or when the parent is not a folder.
CompleteCreate(i) ==
    /\ inv[i].pc = "awaitCreate"
    /\ \E ok \in BOOLEAN :
        IF fileEntry # "none"
        THEN Rejected(i, "exists") /\ UNCHANGED <<fileEntry, fileContent>>
        ELSE IF folderEntry = "folder" /\ ok
        THEN /\ fileEntry' = "file"
             /\ fileContent' = inv[i].content
             /\ OpenDashboard(i, "file", inv[i].content)
        ELSE Rejected(i, "io") /\ UNCHANGED <<fileEntry, fileContent>>
    /\ UNCHANGED <<vaultFiles, folderEntry, reports>>
    /\ UNCHANGED <<settingsVars, localVars>>

\* The vault before any dashboard command has run
InitDashIdle ==
    /\ vaultFiles = <<>>
    /\ folderEntry = "none"
    /\ fileEntry = "none"
    /\ fileContent = OldReport
    /\ inv = [i \in Invocations |-> IdleInvocation]
    /\ reports = <<>>
    /\ anyRejected = FALSE

NoFile ==
    [basename |-> EmptyString, hasFrontmatter |-> FALSE, hasType |-> FALSE,
     type |-> EmptyString, links |-> <<>>]

NoReport == [phase |-> EmptyString, graph |-> generateMermaid([myType |-> EmptyString, nodes |-> <<>>], EmptyString)]

\* editorCallback of 'Generate Local Breakthrough Map' on a view with a file;
\* the command is run once per behaviour on the file drawn by Init
LocalMapCommand ==
    /\ activeFile # NoFile
    /\ ~localDone
    /\ LET mapData == scanConnections(activeFile)
           mermaidCode == generateMermaid(mapData, activeFile.basename)
       IN  localReport' = [phase |-> mapData.myType, graph |-> mermaidCode]
    /\ localDone' = TRUE
    /\ UNCHANGED <<activeFile, settingsVars, dashVars>>

\* editorCallback on a view without a file: `if (!file) return`
LocalMapNoFile ==
    /\ activeFile = NoFile
    /\ UNCHANGED vars

\* Settings as loadSettings leaves them when nothing is stored
InitSettingsLoaded ==
    /\ loaded = TRUE
    /\ stored = [k \in {} |-> {}]
    /\ pendingSaves = <<>>
    /\ saveCompleted = FALSE

\* No local-map command has run
InitLocalIdle ==
    /\ activeFile = NoFile
    /\ localDone = FALSE
    /\ localReport = NoReport

InitLocal ==
    /\ settings \in {DEFAULT_SETTINGS, CustomSettings}
    /\ InitSettingsLoaded
    /\ activeFile \in LocalFiles \cup {NoFile}
    /\ localDone = FALSE
    /\ localReport = NoReport
    /\ InitDashIdle

NextLocal ==
    \/ LocalMapCommand
    \/ LocalMapNoFile

SpecLocal == InitLocal /\ [][NextLocal]_vars


-----------------------------------------------------------------------------
(* Specifications *)

\* What the vault may hold at the folder path and at the dashboard path
VaultStates ==
    {<<"none", "none">>, <<"folder", "none">>, <<"folder", "file">>,
     <<"folder", "folder">>, <<"file", "none">>}

InitDash(vaults, states) ==
    /\ settings = DEFAULT_SETTINGS
    /\ InitSettingsLoaded
    /\ InitLocalIdle
    /\ vaultFiles \in vaults
    /\ \E st \in states : folderEntry = st[1] /\ fileEntry = st[2]
    /\ fileContent = OldReport
    /\ inv = [i \in Invocations |-> IdleInvocation]
    /\ reports = <<>>
    /\ anyRejected = FALSE

DashStep(i, limit) ==
    \/ Trigger(i, limit)
    \/ CompleteCreateFolder(i)
    \/ CompleteModify(i)
    \/ CompleteCreate(i)

\* The dashboard command, triggered whenever the user pleases
Init == InitDash({<<>>, <<PatternDoc, ConstantDoc>>}, VaultStates)
Next == \E i \in Invocations : DashStep(i, MaxGenerations)
Spec == Init /\ [][Next]_vars

\* One dashboard generation over each vault of up to MaxFiles documents
InitGlobal ==
    InitDash(SeqsUpTo(GlobalDocs, MaxFiles), {<<"none", "none">>, <<"folder", "file">>})
NextGlobal == DashStep(1, 1)
SpecGlobal == InitGlobal /\ [][NextGlobal]_vars

\* One dashboard generation over each vault of counted documents
InitInsight ==
    InitDash(CountedVaults, {<<"none", "none">>, <<"folder", "file">>})
NextInsight == DashStep(1, 1)
SpecInsight == InitInsight /\ [][NextInsight]_vars

\* Settings: load at activation, then edits in the settings tab
InitSettings ==
    /\ settings = NoSettings
    /\ loaded = FALSE
    /\ stored \in StoredRecords
    /\ pendingSaves = <<>>
    /\ saveCompleted = FALSE
    /\ InitLocalIdle
    /\ InitDashIdle

NextSettings ==
    \/ loadSettings
    \/ \E value \in FolderValues : OnChangeAnalysisFolder(value)
    \/ \E field \in SchemaFields, value \in LabelValues : OnChangeLevel(field, value)
    \/ HostSaveData

SpecSettings == InitSettings /\ [][NextSettings]_vars

-----------------------------------------------------------------------------
(* Properties *)

\* s spells the lower-case word w, letter case ignored
SpellsIgnoringCase(s, w) ==
    /\ Len(s) = Len(w)
    /\ \A i \in 1..Len(w) : s[i] = w[i] \/ s[i] = ToUpperChar(w[i])

\* The frontmatter type of file spells one of the words, letter case ignored
HasTypeAmong(file, words) ==
    /\ file.hasFrontmatter
    /\ file.hasType
    /\ \E w \in words : SpellsIgnoringCase(file.type, w)

IsCanonical(file) ==
    HasTypeAmong(file, {W_atom, W_signal, W_molecule, W_pattern, W_law, W_constant})

C4_DiagramEdges ==
    localDone =>
        LET g == localReport.graph
            links == activeFile.links
        IN  /\ Len(g.edges) = Len(links)
            /\ \A i \in 1..Len(links) :
                /\ g.edges[i].from = g.center.id
                /\ g.edges[i].label =
                       IF links[i].displayText # EmptyString
                       THEN links[i].displayText ELSE links[i].link
                /\ g.edges[i].to # g.center.id
            /\ \A i, j \in 1..Len(g.edges) :
                i # j => g.edges[i].to # g.edges[j].to

\* C4 witness: a diagram of two different links whose names sanitise to the
\* same string
C4_Witness ==
    /\ localDone
    /\ Len(activeFile.links) = 2
    /\ activeFile.links[1].link # activeFile.links[2].link
    /\ Sanitize(activeFile.links[1].link) = Sanitize(activeFile.links[2].link)
    /\ Len(localReport.graph.edges) = 2

CountWhere(files, P(_)) == Cardinality({k \in 1..Len(files) : P(files[k])})

HasFrontmatter(file) == file.hasFrontmatter
IsTier1(file) == HasTypeAmong(file, {W_atom, W_signal})
IsTier2(file) == HasTypeAmong(file, {W_molecule, W_pattern})
IsTier3(file) == HasTypeAmong(file, {W_law, W_constant})

\* C2: every document with frontmatter and a canonical type increments exactly
\* its own counter and no other document increments any, so the three counters
\* sum to at most the number of documents with frontmatter, with equality only
\* when every document with frontmatter has a canonical type.
C2_Aggregation ==
    \A g \in 1..Len(reports) :
        LET r == reports[g]
            sum == r.signals + r.patterns + r.constants
            withFm == CountWhere(vaultFiles, HasFrontmatter)
        IN  /\ r.signals = CountWhere(vaultFiles, IsTier1)
            /\ r.patterns = CountWhere(vaultFiles, IsTier2)
            /\ r.constants = CountWhere(vaultFiles, IsTier3)
            /\ sum <= withFm
            /\ sum = withFm =>
                  \A k \in 1..Len(vaultFiles) :
                      vaultFiles[k].hasFrontmatter => IsCanonical(vaultFiles[k])

\* C2 witness: a report over two documents with frontmatter of which one has a
\* canonical type
C2_Witness ==
    /\ Len(reports) = 1
    /\ Len(vaultFiles) = 2
    /\ CountWhere(vaultFiles, HasFrontmatter) = 2
    /\ reports[1].signals + reports[1].patterns + reports[1].constants = 1

IsBreakthrough(file) ==
    \/ file.hasTags /\ \E k \in 1..Len(file.tags) : file.tags[k] = Tag_breakthrough
    \/ file.breakthrough = "true"

\* C3: the breakthrough count is the number of documents of the collection
\* that carry the breakthrough tag or whose frontmatter flag is the boolean
\* true, each counted once.
C3_BreakthroughCount ==
    \A g \in 1..Len(reports) :
        reports[g].breakthroughs = CountWhere(vaultFiles, IsBreakthrough)

AtLeastOne(n) == IF n > 1 THEN n ELSE 1

\* C5: exactly one insight block is emitted: High Signal Noise iff
\* signals / max(patterns, 1) > 10; otherwise Ready for Breakthrough iff there
\* are no constants and more than 5 patterns; otherwise Healthy Architecture.
\* (11, 1, any) is High Signal Noise, 6 patterns without constants and a ratio
\* of at most 10 is Ready for Breakthrough, (2, 2, 1) is Healthy Architecture.
C5_InsightSelection ==
    \A g \in 1..Len(reports) :
        LET r == reports[g]
            noisy == r.signals > 10 * AtLeastOne(r.patterns)
            ready == ~noisy /\ r.constants = 0 /\ r.patterns > 5
        IN  /\ Len(r.insights) = 1
            /\ r.insights[1] = "High Signal Noise" <=> noisy
            /\ r.insights[1] = "Ready for Breakthrough" <=> ready
            /\ r.insights[1] = "Healthy Architecture" <=> (~noisy /\ ~ready)
            /\ (r.signals = 11 /\ r.patterns = 1) => r.insights[1] = "High Signal Noise"
            /\ (r.patterns = 6 /\ r.constants = 0 /\ r.signals <= 60)
                  => r.insights[1] = "Ready for Breakthrough"
            /\ (r.signals = 2 /\ r.patterns = 2 /\ r.constants = 1)
                  => r.insights[1] = "Healthy Architecture"

\* C5 witness: a report over 11 signals and 1 pattern carries the warning
C5_Witness ==
    /\ Len(reports) = 1
    /\ reports[1].signals = 11
    /\ reports[1].patterns = 1
    /\ reports[1].insights = <<"High Signal Noise">>

InFlight(i) == inv[i].pc \in {"awaitCreateFolder", "awaitModify", "awaitCreate"}

Quiescent == \A i \in Invocations : ~InFlight(i)

\* C6: once every dashboard generation has ended and no host call has failed,
\* the dashboard file exists and holds exactly the report of the most recent
\* generation.
C6_ReportWriting ==
    (Quiescent /\ Len(reports) > 0 /\ ~anyRejected) =>
        /\ fileEntry = "file"
        /\ fileContent = reports[Len(reports)]

\* C7: no two invocations of the dashboard generator are in progress at once.
C7_NoParallelInvocations ==
    Cardinality({i \in Invocations : InFlight(i)}) <= 1

WriteCalls(steps) == {k \in 1..Len(steps) : steps[k].op \in {"modify", "create"}}
FolderCalls(steps) == {k \in 1..Len(steps) : steps[k].op = "createFolder"}

\* C8: when a host call of an invocation fails, the invocation ends with the
\* dashboard file as it was before the invocation, it has made each host call
\* at most once, and the command can be run again.
C8_FailureLeavesFile ==
    \A i \in Invocations :
        inv[i].pc = "failed" =>
            /\ inv[i].atEnd = inv[i].before
            /\ Cardinality(WriteCalls(inv[i].steps)) <= 1
            /\ Cardinality(FolderCalls(inv[i].steps)) <= 1
            /\ Len(reports) < MaxGenerations => ENABLED Trigger(i, MaxGenerations)

OpsOf(steps) == [k \in 1..Len(steps) |-> steps[k].op]

IsPrefix(p, q) == Len(p) <= Len(q) /\ \A k \in 1..Len(p) : p[k] = q[k]

\* folder check, [createFolder,] file check, modify or create, open
StepPatterns ==
    {<<"folderCheck", "fileCheck", w, "open">> : w \in {"modify", "create"}}
    \cup {<<"folderCheck", "createFolder", "fileCheck", w, "open">> :
             w \in {"modify", "create"}}

StepsInOrder(i) ==
    /\ \E pat \in StepPatterns : IsPrefix(OpsOf(inv[i].steps), pat)
    /\ inv[i].pc = "done" => OpsOf(inv[i].steps) \in StepPatterns

C10_SettingsDefaulted ==
    loaded =>
        /\ {"analysisFolder", "schema"} \subseteq DOMAIN settings
        /\ SchemaFields \subseteq DOMAIN settings.schema
        /\ (saveCompleted /\ pendingSaves = <<>>) => stored = settings

====
